---- MODULE Spec2Model ----
(***************************************************************************)
(* A model of BlockStreamingService (src/block_stream_service.py): the     *)
(* provider list, the active-provider index, the cursor (last_block,       *)
(* last_block_time), the start-up code of run() and one action per way an  *)
(* iteration of its `while True` loop can end.                             *)
(*                                                                         *)
(* Providers are modelled after the DummyProvider classes of src/tests: a  *)
(* fixed dict of blocks 1..blocks, with or without transactions, an        *)
(* optional block for which get_block returns None, an optional failure of *)
(* the latest-number read, and the attribute latest_block, which is        *)
(* separate from the dict and may be assigned at any time. A provider      *)
(* whose get_block raises stands for a node with a transport fault.        *)
(*                                                                         *)
(* Time is a discrete clock `now` that advances only in time.sleep; RPC    *)
(* calls and logging take no time.                                         *)
(***************************************************************************)
EXTENDS Integers, Sequences, FiniteSets, TLC

VARIABLES
    providers,              \* self.providers: sequence of provider configurations
    current_provider_index, \* self.current_provider_index (0-based, as in the code)
    last_block,             \* self.last_block (None before run() sets it)
    last_block_time,        \* self.last_block_time
    now,                    \* time.time()
    pc,                     \* "init_raised" | "constructed" | "running" | "raised"
    emitted,                \* the records handed to _log_block's sink, in order
    event,                  \* what the most recent step of run() logged
    preset,                 \* the cursor a caller assigned before run(), if any
    start_block,            \* the cursor value the loop was entered with
    rotations,              \* per provider index, how often it was switched away from
    configured,             \* the providers argument of __init__
    latest_block,           \* per provider, the number its block_number reports
    polled,                 \* provider indices whose latest number the last step read
    requested               \* block numbers the last step passed to get_block

vars == <<providers, current_provider_index, last_block, last_block_time, now,
          pc, emitted, event, preset, start_block, rotations, configured,
          latest_block, polled, requested>>

----------------------------------------------------------------------------
(* Bounds of the model. PollInterval and BlockDelayThreshold are the        *)
(* constructor arguments poll_interval and block_delay_threshold, chosen    *)
(* small (the tests pass 0.1 and 1.0; the defaults are 5 and 60).           *)

MaxBlock == 3
MaxProviders == 2
Horizon == 4
MaxRotations == 3
PollInterval == 1
BlockDelayThreshold == 2

\* Python's None for last_block / last_block_time.
None == -1

\* time.time() when the service is constructed; late enough that a caller can
\* back-date last_block_time by more than the threshold.
StartTime == BlockDelayThreshold + 1
MaxTime == StartTime + Horizon

----------------------------------------------------------------------------
(* Providers                                                                *)

\* What get_block does for a provider's faulty block: returns None or raises.
Faults == {"missing", "error"}

\* test_provider_switching.DummyProvider(name, block_data, fail_on_block):
\* block_data holds blocks 1..blocks, each with transactions; get_block
\* returns None for fail_on_block (fault_block = 0: fail_on_block is None).
SwitchingDummies ==
    {c \in [blocks : 0..MaxBlock, txs : {TRUE}, fail_on_latest : {FALSE},
            fault : {"none", "missing"}, fault_block : 0..MaxBlock] :
        IF c.fault = "none" THEN c.fault_block = 0
        ELSE c.fault_block \in 1..c.blocks}

\* test_health_check.DummyProvider(latest_block, fail_on_block, fail_on_latest):
\* blocks 1..latest_block, every one with "transactions": []. A provider
\* whose latest-number read fails is never asked for a block, so its other
\* parameters are fixed.
HealthCheckDummies ==
    {c \in [blocks : 0..MaxBlock, txs : {FALSE}, fail_on_latest : {FALSE},
            fault : {"none", "missing"}, fault_block : 0..MaxBlock] :
        IF c.fault = "none" THEN c.fault_block = 0
        ELSE c.fault_block \in 1..c.blocks}
    \cup {[blocks |-> 0, txs |-> FALSE, fail_on_latest |-> TRUE,
           fault |-> "none", fault_block |-> 0]}

\* A node whose get_block raises for one of its blocks (the except branch of
\* the for loop).
RaisingProviders ==
    {c \in [blocks : 1..MaxBlock, txs : {TRUE}, fail_on_latest : {FALSE},
            fault : {"error"}, fault_block : 1..MaxBlock] :
        c.fault_block <= c.blocks}

ProviderConfigs == SwitchingDummies \cup HealthCheckDummies \cup RaisingProviders

Pools == UNION {[1..n -> ProviderConfigs] : n \in 1..MaxProviders}

\* self.providers[i] for the code's 0-based index i.
Provider(i) == providers[i + 1]

\* provider["name"]: the default name Provider{idx+1} of __init__.
ProviderName(i) == i + 1

\* web3.eth.block_number raises.
LatestFails(i) == Provider(i).fail_on_latest

\* web3.eth.block_number when it does not raise.
Latest(i) == latest_block[i + 1]

\* web3.eth.get_block(n): "block", "empty_txs" (a block whose transaction
\* list is empty), "missing" (None) or "error" (raises).
GetBlock(i, n) ==
    IF Provider(i).fault_block = n THEN Provider(i).fault
    ELSE IF n \in 1..Provider(i).blocks
         THEN (IF Provider(i).txs THEN "block" ELSE "empty_txs")
    ELSE "missing"

----------------------------------------------------------------------------
(* Helpers of run()                                                         *)

\* _switch_provider: the next index in cyclic order.
SwitchProvider_AddTwo(old_index) == (old_index + 2) % Len(providers)

SwitchProvider(old_index) == (old_index + 1) % Len(providers)

\* The history of _switch_provider calls: one more rotation away from
\* old_index (the count stops at MaxRotations).
Rotated(old_index) ==
    [rotations EXCEPT ![old_index] = IF @ < MaxRotations THEN @ + 1 ELSE @]

\* The time _switch_provider suspends the caller: it never sleeps.
SwitchDelay(old_index) == 0

\* self.last_block = current_latest at the start of run().
InitialCursor_LatestMinusOne(current_latest) == current_latest - 1

InitialCursor(current_latest) == current_latest

\* The first block number of range(self.last_block + 1, latest + 1).
RangeStart_Inclusive(lb) == lb

RangeStart(lb) == lb + 1

\* A variant of the stall test with a strict comparison.
Stalled_Strict(t, lbt) == t - lbt > BlockDelayThreshold

\* The stall test of the no-new-block branch.
Stalled(t, lbt) == t - lbt >= BlockDelayThreshold

\* _log_block raises IndexError on txs[0] when the transaction list is empty;
\* otherwise it emits the record.
LogBlockRaises(kind) == kind = "empty_txs"

BlockRecord(n, i) == [block_number |-> n, provider |-> ProviderName(i)]

\* A variant of the for loop that goes on to the next block after a failed
\* fetch (`continue` where the code has `break`).
RECURSIVE ForLoop_ContinuesAfterError(_, _, _, _)
ForLoop_ContinuesAfterError(i, n, latest, st) ==
    IF n > latest THEN st
    ELSE LET block == GetBlock(i, n)
             asked == [st EXCEPT !.requested = Append(@, n)]
         IN
         IF block = "error"
         THEN ForLoop_ContinuesAfterError(i, n + 1, latest,
                                          [asked EXCEPT !.outcome = "block_error"])
         ELSE IF block = "missing" THEN [asked EXCEPT !.outcome = "block_missing"]
         ELSE IF LogBlockRaises(block) THEN [asked EXCEPT !.outcome = "emit_raised"]
         ELSE ForLoop_ContinuesAfterError(i, n + 1, latest,
                      [asked EXCEPT !.emitted = Append(@, BlockRecord(n, i)),
                                    !.last_block = n,
                                    !.last_block_time = now])

\* The for loop over range(last_block + 1, latest + 1): st is the loop's
\* state, n the next block number. It ends "done" when the range is
\* exhausted, or at the first block that is missing, raises on fetch, or
\* makes _log_block raise.
RECURSIVE ForLoop(_, _, _, _)
ForLoop(i, n, latest, st) ==
    IF n > latest THEN [st EXCEPT !.outcome = "done"]
    ELSE LET block == GetBlock(i, n)
             asked == [st EXCEPT !.requested = Append(@, n)]
         IN
         IF block = "error" THEN [asked EXCEPT !.outcome = "block_error"]
         ELSE IF block = "missing" THEN [asked EXCEPT !.outcome = "block_missing"]
         ELSE IF LogBlockRaises(block) THEN [asked EXCEPT !.outcome = "emit_raised"]
         ELSE ForLoop(i, n + 1, latest,
                      [asked EXCEPT !.emitted = Append(@, BlockRecord(n, i)),
                                    !.last_block = n,
                                    !.last_block_time = now])

FetchNewBlocks(i, latest) ==
    ForLoop(i, RangeStart(last_block), latest,
            [emitted |-> emitted, last_block |-> last_block,
             last_block_time |-> last_block_time, requested |-> <<>>,
             outcome |-> "done"])

----------------------------------------------------------------------------
(* Initial state: the service as __init__ leaves it.                        *)

NoPreset == [last_block |-> None, age |-> 0]

\* A variant of __init__ that probes every provider and drops those whose
\* latest-number read fails.
Construct_ProbeAndDrop(specs) ==
    LET Answers(c) == ~c.fail_on_latest
        kept == SelectSeq(specs, Answers)
    IN [raised |-> kept = <<>>, providers |-> kept]

\* __init__: every configured provider is appended to self.providers;
\* ValueError when the list is empty.
Construct(specs) == [raised |-> specs = <<>>, providers |-> specs]

Init ==
    /\ configured \in Pools \cup {<<>>}
    /\ providers = Construct(configured).providers
    /\ pc = IF Construct(configured).raised THEN "init_raised" ELSE "constructed"
    \* latest_block is whatever the provider's constructor, or an assignment
    \* made before the service was built, left in it.
    /\ latest_block \in [1..Len(providers) -> 0..MaxBlock]
    /\ current_provider_index = 0
    /\ last_block = None
    /\ last_block_time = None
    /\ now = StartTime
    /\ polled = <<>>
    /\ requested = <<>>
    /\ emitted = <<>>
    /\ event = "constructed"
    /\ preset = NoPreset
    /\ start_block = None
    /\ rotations = [i \in 0..(Len(providers) - 1) |-> 0]

----------------------------------------------------------------------------
(* A caller assigning the cursor between construction and run(), as the     *)
(* three tests do: last_block = 0 with the current time, or last_block = the *)
(* height of the first provider with a time older than the threshold.       *)

PresetAges == {0, BlockDelayThreshold + 1}

SetCursor ==
    /\ pc = "constructed"
    /\ preset = NoPreset
    /\ \E b \in {0, latest_block[1]}, age \in PresetAges :
        /\ \/ b = 0 /\ age = 0
           \/ b = latest_block[1] /\ age > 0
        /\ last_block' = b
        /\ last_block_time' = now - age
        /\ preset' = [last_block |-> b, age |-> age]
    /\ UNCHANGED <<providers, current_provider_index, now, pc, emitted, event,
                   start_block, rotations, configured, latest_block, polled, requested>>

----------------------------------------------------------------------------
(* The start of run(), before the while loop.                               *)

\* The first provider answers: the cursor is set from its latest number.
RunStart ==
    /\ pc = "constructed"
    /\ ~LatestFails(current_provider_index)
    /\ last_block' = InitialCursor(Latest(current_provider_index))
    /\ last_block_time' = now
    /\ start_block' = last_block'
    /\ pc' = "running"
    /\ event' = "start"
    /\ polled' = <<current_provider_index>>
    /\ requested' = <<>>
    /\ UNCHANGED <<providers, current_provider_index, now, emitted, preset, rotations,
                   configured, latest_block>>

\* The first provider raises, the next one answers.
RunStartFailover ==
    /\ pc = "constructed"
    /\ LatestFails(current_provider_index)
    /\ LET next == SwitchProvider(current_provider_index) IN
        /\ ~LatestFails(next)
        /\ current_provider_index' = next
        /\ now' = now + SwitchDelay(current_provider_index)
        /\ last_block' = InitialCursor(Latest(next))
        /\ last_block_time' = now'
        /\ start_block' = last_block'
    /\ pc' = "running"
    /\ event' = "start_failover"
    /\ rotations' = Rotated(current_provider_index)
    /\ polled' = <<current_provider_index, SwitchProvider(current_provider_index)>>
    /\ requested' = <<>>
    /\ UNCHANGED <<providers, emitted, preset, configured, latest_block>>

\* The first provider raises and so does the next: the second read is
\* outside the try block, so the exception leaves run().
RunStartRaises ==
    /\ pc = "constructed"
    /\ LatestFails(current_provider_index)
    /\ LET next == SwitchProvider(current_provider_index) IN
        /\ LatestFails(next)
        /\ current_provider_index' = next
        /\ now' = now + SwitchDelay(current_provider_index)
    /\ pc' = "raised"
    /\ event' = "start_raised"
    /\ rotations' = Rotated(current_provider_index)
    /\ polled' = <<current_provider_index, SwitchProvider(current_provider_index)>>
    /\ requested' = <<>>
    /\ UNCHANGED <<providers, last_block, last_block_time, emitted, preset,
                   start_block, configured, latest_block>>

----------------------------------------------------------------------------
(* One iteration of the while loop, by the way it ends.                     *)

\* time.sleep(self.poll_interval) at the end of an iteration.
CanSleep == now + PollInterval <= MaxTime

\* A variant that retries the same provider after a failed latest-number
\* read instead of switching.
PollLatestError_RetriesSameProvider ==
    /\ pc = "running"
    /\ LatestFails(current_provider_index)
    /\ now' = now + SwitchDelay(current_provider_index)
    /\ event' = "latest_error"
    /\ polled' = <<current_provider_index>>
    /\ requested' = <<>>
    /\ UNCHANGED <<providers, current_provider_index, last_block, last_block_time, pc,
                   emitted, preset, start_block, rotations, configured, latest_block>>

\* Reading the latest number raises: switch and `continue`.
PollLatestError ==
    /\ pc = "running"
    /\ LatestFails(current_provider_index)
    /\ current_provider_index' = SwitchProvider(current_provider_index)
    /\ now' = now + SwitchDelay(current_provider_index)
    /\ event' = "latest_error"
    /\ rotations' = Rotated(current_provider_index)
    /\ polled' = <<current_provider_index>>
    /\ requested' = <<>>
    /\ UNCHANGED <<providers, last_block, last_block_time, pc, emitted, preset,
                   start_block, configured, latest_block>>

\* New blocks, all fetched and logged; then the sleep.
PollCaughtUp ==
    /\ pc = "running"
    /\ ~LatestFails(current_provider_index)
    /\ Latest(current_provider_index) > last_block
    /\ LET r == FetchNewBlocks(current_provider_index, Latest(current_provider_index)) IN
        /\ r.outcome = "done"
        /\ emitted' = r.emitted
        /\ last_block' = r.last_block
        /\ requested' = r.requested
        /\ last_block_time' = r.last_block_time
    /\ CanSleep
    /\ now' = now + PollInterval
    /\ event' = "caught_up"
    /\ polled' = <<current_provider_index>>
    /\ UNCHANGED <<providers, current_provider_index, pc, preset, start_block, rotations,
                   configured, latest_block>>

\* A variant that retries a missing block in place: it switches the provider
\* only when get_block raises.
PollBlockFault_KeepsProviderOnMissing ==
    /\ pc = "running"
    /\ ~LatestFails(current_provider_index)
    /\ Latest(current_provider_index) > last_block
    /\ LET r == FetchNewBlocks(current_provider_index, Latest(current_provider_index)) IN
        /\ r.outcome \in {"block_error", "block_missing"}
        /\ emitted' = r.emitted
        /\ last_block' = r.last_block
        /\ requested' = r.requested
        /\ last_block_time' = r.last_block_time
        /\ event' = r.outcome
        /\ current_provider_index' =
            IF r.outcome = "block_missing" THEN current_provider_index
            ELSE SwitchProvider(current_provider_index)
        /\ rotations' =
            IF r.outcome = "block_missing" THEN rotations
            ELSE Rotated(current_provider_index)
    /\ CanSleep
    /\ now' = now + SwitchDelay(current_provider_index) + PollInterval
    /\ polled' = <<current_provider_index>>
    /\ UNCHANGED <<providers, pc, preset, start_block, configured, latest_block>>

\* get_block raises, or returns None, for some block: the blocks before it
\* are logged, the provider is switched, the for loop is left with `break`,
\* and the iteration ends with the sleep.
PollBlockFault ==
    /\ pc = "running"
    /\ ~LatestFails(current_provider_index)
    /\ Latest(current_provider_index) > last_block
    /\ LET r == FetchNewBlocks(current_provider_index, Latest(current_provider_index)) IN
        /\ r.outcome \in {"block_error", "block_missing"}
        /\ emitted' = r.emitted
        /\ last_block' = r.last_block
        /\ requested' = r.requested
        /\ last_block_time' = r.last_block_time
        /\ event' = r.outcome
    /\ current_provider_index' = SwitchProvider(current_provider_index)
    /\ CanSleep
    /\ now' = now + SwitchDelay(current_provider_index) + PollInterval
    /\ rotations' = Rotated(current_provider_index)
    /\ polled' = <<current_provider_index>>
    /\ UNCHANGED <<providers, pc, preset, start_block, configured, latest_block>>

\* _log_block raises on a block with an empty transaction list: the
\* exception is raised outside any try block and leaves run().
PollEmitRaises ==
    /\ pc = "running"
    /\ ~LatestFails(current_provider_index)
    /\ Latest(current_provider_index) > last_block
    /\ LET r == FetchNewBlocks(current_provider_index, Latest(current_provider_index)) IN
        /\ r.outcome = "emit_raised"
        /\ emitted' = r.emitted
        /\ last_block' = r.last_block
        /\ requested' = r.requested
        /\ last_block_time' = r.last_block_time
    /\ pc' = "raised"
    /\ event' = "emit_raised"
    /\ polled' = <<current_provider_index>>
    /\ UNCHANGED <<providers, current_provider_index, now, preset, start_block, rotations,
                   configured, latest_block>>

\* A plausible slip: following a provider that is behind the cursor.
PollIdle_Resync ==
    /\ pc = "running"
    /\ ~LatestFails(current_provider_index)
    /\ Latest(current_provider_index) <= last_block
    /\ ~Stalled(now, last_block_time)
    /\ CanSleep
    /\ now' = now + PollInterval
    /\ last_block' = Latest(current_provider_index)
    /\ event' = "idle"
    /\ polled' = <<current_provider_index>>
    /\ requested' = <<>>
    /\ UNCHANGED <<providers, current_provider_index, last_block_time, pc,
                   emitted, preset, start_block, rotations, configured, latest_block>>

\* No new block and the threshold has not passed: only the sleep.
PollIdle ==
    /\ pc = "running"
    /\ ~LatestFails(current_provider_index)
    /\ Latest(current_provider_index) <= last_block
    /\ ~Stalled(now, last_block_time)
    /\ CanSleep
    /\ now' = now + PollInterval
    /\ event' = "idle"
    /\ polled' = <<current_provider_index>>
    /\ requested' = <<>>
    /\ UNCHANGED <<providers, current_provider_index, last_block, last_block_time,
                   pc, emitted, preset, start_block, rotations, configured, latest_block>>

\* A variant in which a stall also restarts the stall clock.
PollStalled_RestartsClock ==
    /\ pc = "running"
    /\ ~LatestFails(current_provider_index)
    /\ Latest(current_provider_index) <= last_block
    /\ Stalled(now, last_block_time)
    /\ current_provider_index' = SwitchProvider(current_provider_index)
    /\ now' = now + SwitchDelay(current_provider_index)
    /\ last_block_time' = now'
    /\ event' = "stall"
    /\ rotations' = Rotated(current_provider_index)
    /\ polled' = <<current_provider_index>>
    /\ requested' = <<>>
    /\ UNCHANGED <<providers, last_block, pc, emitted, preset, start_block, configured, latest_block>>

\* A variant in which the iteration sleeps after a stall switch.
PollStalled_Sleeps ==
    /\ pc = "running"
    /\ ~LatestFails(current_provider_index)
    /\ Latest(current_provider_index) <= last_block
    /\ Stalled(now, last_block_time)
    /\ current_provider_index' = SwitchProvider(current_provider_index)
    /\ CanSleep
    /\ now' = now + SwitchDelay(current_provider_index) + PollInterval
    /\ event' = "stall"
    /\ rotations' = Rotated(current_provider_index)
    /\ polled' = <<current_provider_index>>
    /\ requested' = <<>>
    /\ UNCHANGED <<providers, last_block, last_block_time, pc, emitted, preset,
                   start_block, configured, latest_block>>

\* No new block for block_delay_threshold: switch and `continue`, no sleep.
PollStalled ==
    /\ pc = "running"
    /\ ~LatestFails(current_provider_index)
    /\ Latest(current_provider_index) <= last_block
    /\ Stalled(now, last_block_time)
    /\ current_provider_index' = SwitchProvider(current_provider_index)
    /\ now' = now + SwitchDelay(current_provider_index)
    /\ event' = "stall"
    /\ rotations' = Rotated(current_provider_index)
    /\ polled' = <<current_provider_index>>
    /\ requested' = <<>>
    /\ UNCHANGED <<providers, last_block, last_block_time, pc, emitted, preset,
                   start_block, configured, latest_block>>

\* provider.latest_block is assigned the next number (the tests assign it
\* to one provider at a time): the provider now reports one block more; its
\* dict of blocks is as it was.
NewBlock ==
    /\ pc \in {"constructed", "running"}
    /\ \E k \in 1..Len(providers) :
        /\ latest_block[k] < MaxBlock
        /\ latest_block' = [latest_block EXCEPT ![k] = @ + 1]
    /\ UNCHANGED <<providers, current_provider_index, last_block, last_block_time,
                   now, pc, emitted, event, preset, start_block, rotations,
                   configured, polled, requested>>

\* The steps that call _switch_provider.
RotationEvents ==
    {"start_failover", "start_raised", "latest_error", "block_error",
     "block_missing", "stall"}

Run ==
    \/ RunStart
    \/ RunStartFailover
    \/ RunStartRaises
    \/ PollLatestError
    \/ PollCaughtUp
    \/ PollBlockFault
    \/ PollEmitRaises
    \/ PollIdle
    \/ PollStalled

Next == Run \/ NewBlock

\* run() on a freshly constructed service.
Spec == Init /\ [][Next]_vars

NextTest == SetCursor \/ Run

\* run() on a service whose cursor a caller may have assigned first; as in
\* the tests, no latest_block is assigned once run() has been called.
TestSpec == Init /\ [][NextTest]_vars

----------------------------------------------------------------------------
(* Vocabulary of the properties.                                            *)

\* A provider that answers the latest-number read and returns a block with
\* transactions for every number of its dict.
Healthy(c) == ~c.fail_on_latest /\ c.fault = "none" /\ c.txs

\* A provider that always answers the latest-number read and returns a block
\* for every number of its dict (the blocks may have no transactions).
Serves(c) == ~c.fail_on_latest /\ c.fault = "none"

\* Provider k reports the last block of its dict, as its constructor sets it.
InSync(k) == latest_block[k] = providers[k].blocks

EmittedNumbers == {emitted[k].block_number : k \in 1..Len(emitted)}

\* A step of run() that calls _switch_provider.
RotationStep ==
    \/ RunStartFailover
    \/ RunStartRaises
    \/ PollLatestError
    \/ PollBlockFault
    \/ PollStalled

\* The part of a step's duration that is not the poll_interval sleep.
DelayBeforeRotation == IF PollBlockFault THEN now' - now - PollInterval ELSE now' - now

Min(a, b) == IF a < b THEN a ELSE b

----------------------------------------------------------------------------
(* C1: last_block never decreases: in every step of run() taken with the   *)
(* cursor set, polling cycles of every kind (new blocks, fetch errors,     *)
(* missing blocks, a lagging provider, a stall, a rotation) leave          *)
(* last_block at least as large as it was.                                 *)
C1_CursorNeverDecreases == [][last_block # None => last_block' >= last_block]_vars

\* A lagging provider (latest below the cursor) was polled after the cursor
\* had advanced, and the cursor stayed.
C1_Witness ==
    /\ event = "idle"
    /\ last_block > start_block
    /\ Latest(current_provider_index) < last_block

(* C2: the block numbers handed to the sink are consecutive: each emitted  *)
(* number is the previous emitted number plus one, across cycles and       *)
(* across provider switches.                                               *)
C2_EmittedConsecutive ==
    \A k \in 1..(Len(emitted) - 1) :
        emitted[k + 1].block_number = emitted[k].block_number + 1

\* Three or more blocks were emitted, by two different providers.
C2_Witness ==
    /\ Len(emitted) >= 3
    /\ \E j, k \in 1..Len(emitted) : emitted[j].provider # emitted[k].provider

\* The set-up of test_sequential_block_processing_no_gaps.
C3_Scenario ==
    /\ Len(providers) = 1
    /\ Healthy(providers[1])
    /\ InSync(1)
    /\ preset.last_block = 0

(* C3: a single healthy provider reporting latest = N, the cursor assigned *)
(* 0 before run(): once the loop has run a cycle and is caught up, the     *)
(* emitted records are exactly blocks 1..N in order.                       *)
C3_EmitsOneToN ==
    (/\ C3_Scenario
     /\ pc = "running"
     /\ event # "start"
     /\ last_block >= Latest(0))
    => emitted = [k \in 1..Latest(0) |-> BlockRecord(k, 0)]

\* The set-up of test_failover_and_catch_up, one block shorter: provider A
\* holds block 1 and reports 2 (its fail_on_block is a number its dict does
\* not hold either); provider B holds and reports blocks 1..3.
C4_Scenario ==
    /\ providers =
        << [blocks |-> 1, txs |-> TRUE, fail_on_latest |-> FALSE,
            fault |-> "none", fault_block |-> 0],
           [blocks |-> 3, txs |-> TRUE, fail_on_latest |-> FALSE,
            fault |-> "none", fault_block |-> 0] >>
    /\ latest_block = <<2, 3>>
    /\ preset.last_block = 0

(* C4: provider A reports n, serves the blocks below n and cannot deliver  *)
(* n; provider B serves every block; the cursor is assigned 0 before       *)
(* run(): once B's last block is reached the emitted records are the       *)
(* blocks below n from A, then n and the blocks above it from B (here      *)
(* n = 2: (1,A), (2,B), (3,B)).                                            *)
C4_FailoverResumesAtN ==
    (C4_Scenario /\ last_block >= 3)
    => emitted = << BlockRecord(1, 0), BlockRecord(2, 1), BlockRecord(3, 1) >>

(* C5: with a provider in the pool that always answers and serves every    *)
(* block up to its latest, every block above the cursor the loop started   *)
(* from and up to that latest is eventually emitted. Stated on the runs    *)
(* that end: run() is never left while such a block is still unemitted.    *)
C5_ServedBlocksEmitted ==
    pc = "raised" =>
        \A k \in 1..Len(providers) :
            (Serves(providers[k]) /\ latest_block[k] <= providers[k].blocks) =>
                \A n \in ((IF start_block = None THEN 0 ELSE start_block) + 1)
                            ..latest_block[k] :
                    n \in EmittedNumbers

\* The set-up of test_switch_on_stalled_provider.
C6_Scenario ==
    /\ Len(providers) = 2
    /\ \A k \in 1..2 : providers[k] \in HealthCheckDummies /\ Serves(providers[k])
    /\ InSync(1) /\ InSync(2)
    /\ latest_block[1] = latest_block[2]
    /\ preset.last_block = latest_block[1]
    /\ preset.age > BlockDelayThreshold

(* C6: two healthy providers at the same height, the cursor assigned that  *)
(* height with a timestamp older than block_delay_threshold: the first     *)
(* polling cycle of run() is a stall rotation from index 0 to index 1.     *)
C6_FirstCycleRotates ==
    [][(C6_Scenario /\ event = "start" /\ ~NewBlock)
        => (/\ current_provider_index = 0
            /\ current_provider_index' = 1
            /\ event' = "stall")]_vars

(* C7: provider faults and stalls never end run(): it is never left by an  *)
(* exception caused by a failing latest-number read, a failing get_block   *)
(* or a stall.                                                             *)
C7_FaultsNeverFatal == pc = "raised" => event \notin RotationEvents

(* C8 (as amended): at the start of run() the cursor is set to the latest  *)
(* number read, not to latest - 1, and last_block_time to the current      *)
(* time; the first block emitted is therefore latest + 1.                  *)
C8_CursorStartsAtLatest ==
    [][/\ (pc = "constructed" /\ pc' = "running") =>
            /\ last_block' = latest_block[current_provider_index' + 1]
            /\ last_block_time' = now'
            /\ start_block' = last_block'
       /\ emitted' # <<>> => emitted'[1].block_number = start_block' + 1]_vars

\* A first block was emitted, and it is the one after the latest read at start.
C8_Witness ==
    /\ emitted # <<>>
    /\ emitted[1].block_number = start_block + 1
    /\ start_block >= 1

(* C8 as claimed: the first successful read sets the cursor to latest - 1. *)
C8_CursorStartsAtLatestMinusOne ==
    [][(pc = "constructed" /\ last_block = None /\ pc' = "running")
        => last_block' = latest_block[current_provider_index' + 1] - 1]_vars

(* C9: the active index is always a position of the pool; a step that      *)
(* rotates moves it to (index + 1) mod pool_size (with one provider, to    *)
(* itself), and no other step changes it.                                  *)
C9_OnlyRotationMovesIndex ==
    [][/\ current_provider_index' \in 0..(Len(providers) - 1)
       /\ RotationStep =>
            current_provider_index' = (current_provider_index + 1) % Len(providers)
       /\ ~RotationStep => current_provider_index' = current_provider_index]_vars

\* A rotation wrapped around from the last provider of a pool of two.
C9_Witness ==
    /\ Len(providers) = 2
    /\ event \in RotationEvents
    /\ current_provider_index = 0
    /\ rotations[1] >= 1

(* C10: the k-th rotation away from a provider is preceded by a delay of   *)
(* min(2^k, 300) time units, k counting that provider's rotations across   *)
(* switches to other providers.                                            *)
C10_BackoffBeforeRotation ==
    [][(RotationStep /\ rotations[current_provider_index] < MaxRotations)
        => DelayBeforeRotation = Min(2 ^ rotations'[current_provider_index], 300)]_vars

(* C11 (as amended): construction makes no liveness probe and drops no      *)
(* provider: every configured provider is kept, in order, also one whose    *)
(* latest-number read fails; construction raises only when the configured   *)
(* list is empty, and then no provider is ever polled.                      *)
C11_ConstructionKeepsEveryProvider ==
    /\ pc = "init_raised" <=> configured = <<>>
    /\ Len(providers) = Len(configured)
    /\ \A k \in 1..Len(providers) :
        providers[k].fail_on_latest = configured[k].fail_on_latest
    /\ pc = "init_raised" => polled = <<>>

\* A service was constructed from two providers that both fail the read.
C11_Witness ==
    /\ pc = "constructed"
    /\ Len(providers) = 2
    /\ \A k \in 1..Len(providers) : providers[k].fail_on_latest

(* C11 as claimed: constructing the service with providers that all fail   *)
(* the latest-number read raises, and no provider is ever polled.          *)
C11_AllFailingRaisesAtConstruction ==
    (configured # <<>> /\ \A k \in 1..Len(configured) : configured[k].fail_on_latest)
    => (pc = "init_raised" /\ polled = <<>>)

\* The iteration in which get_block returned None for some block.
MissingStep == PollBlockFault /\ event' = "block_missing"

\* The block number of the last get_block call of the step.
LastRequested == requested'[Len(requested')]

(* C12 (as amended): when get_block(n) returns no data the loop stops      *)
(* iterating for this cycle, switches to the next provider, and leaves the *)
(* cursor at n - 1; the next cycle that fetches starts with block n.       *)
C12_MissingBlockRotates ==
    [][/\ MissingStep =>
            /\ requested' # <<>>
            /\ GetBlock(current_provider_index, LastRequested) = "missing"
            /\ last_block' = LastRequested - 1
            /\ current_provider_index' = (current_provider_index + 1) % Len(providers)
       /\ (event = "block_missing" /\ ~NewBlock /\ requested' # <<>>) =>
            requested'[1] = last_block + 1]_vars

\* The second of two providers returned None for a block after serving the
\* blocks before it, and the first provider is active again.
C12_Witness ==
    /\ event = "block_missing"
    /\ Len(providers) = 2
    /\ current_provider_index = 0
    /\ emitted # <<>>
    /\ last_block = requested[Len(requested)] - 1

(* C12 as claimed: when get_block(n) returns no data the loop stops        *)
(* iterating without rotating the provider, the cursor staying at n - 1.   *)
C12_MissingBlockDoesNotRotate ==
    [][MissingStep =>
        /\ current_provider_index' = current_provider_index
        /\ rotations' = rotations
        /\ last_block' = LastRequested - 1]_vars

\* The iteration in which get_block raised for some block.
ErrorStep == PollBlockFault /\ event' = "block_error"

(* C13: when get_block(n) raises, the blocks from the cursor up to n - 1   *)
(* fetched in this cycle are emitted and stay emitted, n is the last block *)
(* requested in the cycle, the cursor is left at n - 1, the provider is    *)
(* switched exactly once, and whenever a cycle fetches, the first block it *)
(* requests is the one after the cursor (so n, for the new provider).      *)
C13_FetchErrorRotatesOnce ==
    [][/\ ErrorStep =>
            /\ requested' # <<>>
            /\ requested' = [k \in 1..(LastRequested - last_block) |-> last_block + k]
            /\ GetBlock(current_provider_index, LastRequested) = "error"
            /\ last_block' = LastRequested - 1
            /\ emitted' = emitted \o
                    [k \in 1..(LastRequested - 1 - last_block) |->
                        BlockRecord(last_block + k, current_provider_index)]
            /\ current_provider_index' = (current_provider_index + 1) % Len(providers)
            /\ rotations' =
                    [rotations EXCEPT ![current_provider_index] =
                        IF @ < MaxRotations THEN @ + 1 ELSE @]
       /\ (pc = "running" /\ ~NewBlock /\ requested' # <<>>) =>
            requested'[1] = last_block + 1]_vars

\* get_block raised for a block after at least one block of the same cycle
\* had been emitted; the cursor is at the block before the failed one.
C13_Witness ==
    /\ event = "block_error"
    /\ Len(requested) >= 2
    /\ emitted # <<>>
    /\ emitted[Len(emitted)].block_number = last_block
    /\ last_block = requested[Len(requested)] - 1

(* C14: an iteration whose latest-number read raises switches to the next  *)
(* provider exactly once and ends there: it requests and emits no block,   *)
(* leaves the cursor and its timestamp alone, does not sleep, and the      *)
(* iteration after it reads the latest number from the new active provider.*)
C14_LatestErrorRotatesAndEndsCycle ==
    [][/\ PollLatestError =>
            /\ polled' = <<current_provider_index>>
            /\ current_provider_index' = (current_provider_index + 1) % Len(providers)
            /\ rotations' =
                    [rotations EXCEPT ![current_provider_index] =
                        IF @ < MaxRotations THEN @ + 1 ELSE @]
            /\ requested' = <<>>
            /\ emitted' = emitted
            /\ last_block' = last_block
            /\ last_block_time' = last_block_time
            /\ now' = now
            /\ pc' = "running"
       /\ (event = "latest_error" /\ pc = "running" /\ ~NewBlock) =>
            /\ polled' # <<>>
            /\ polled'[1] = current_provider_index
            /\ polled'[1] = (polled[1] + 1) % Len(providers)]_vars

\* The latest-number read of the second provider raised after the first one
\* had emitted blocks; the first provider is active again.
C14_Witness ==
    /\ event = "latest_error"
    /\ Len(providers) = 2
    /\ polled = <<1>>
    /\ current_provider_index = 0
    /\ emitted # <<>>

(* C15: an iteration of the loop that goes on to another iteration sleeps  *)
(* poll_interval exactly once when it did not switch the provider, and     *)
(* does not sleep at all when it did, whatever the cause of the switch     *)
(* (failed latest-number read, failed or missing block fetch, stall).      *)
C15_SleepsIffNoRotation ==
    [][(pc = "running" /\ pc' = "running" /\ ~NewBlock) =>
            now' - now = IF RotationStep THEN 0 ELSE PollInterval]_vars

\* An iteration in which the active provider answers and reports no block
\* above the cursor.
NoNewBlockStep ==
    /\ pc = "running"
    /\ ~NewBlock
    /\ ~LatestFails(current_provider_index)
    /\ Latest(current_provider_index) <= last_block

(* C16: a provider is judged stalled only when it reports no block above   *)
(* the cursor, and then exactly when the time since the cursor last        *)
(* advanced is at least block_delay_threshold: when the elapsed time       *)
(* equals the threshold the iteration switches the provider, and when it   *)
(* is less the iteration leaves the provider alone.                        *)
C16_StalledAtOrAboveThreshold ==
    [][/\ PollStalled => Latest(current_provider_index) <= last_block
       /\ NoNewBlockStep =>
            /\ PollStalled <=> now - last_block_time >= BlockDelayThreshold
            /\ PollIdle <=> now - last_block_time < BlockDelayThreshold
            /\ current_provider_index' =
                    IF now - last_block_time >= BlockDelayThreshold
                    THEN (current_provider_index + 1) % Len(providers)
                    ELSE current_provider_index]_vars

\* A stall judged when exactly block_delay_threshold has passed since the
\* cursor last advanced.
C16_Witness ==
    /\ event = "stall"
    /\ now - last_block_time = BlockDelayThreshold
    /\ Len(providers) = 2
    /\ current_provider_index = 1
    /\ emitted # <<>>

(* C16 as stated: a provider is judged stalled only when the elapsed time  *)
(* is strictly greater than block_delay_threshold; at the threshold or     *)
(* below it the iteration does not switch the provider.                    *)
C16_StalledOnlyAboveThreshold ==
    [][/\ PollStalled =>
            /\ Latest(current_provider_index) <= last_block
            /\ now - last_block_time > BlockDelayThreshold
       /\ (NoNewBlockStep /\ now - last_block_time <= BlockDelayThreshold) =>
            current_provider_index' = current_provider_index]_vars

\* A step of run() that logs at least one block.
EmitStep == emitted' # emitted

(* C17: last_block and last_block_time change only at the start-up         *)
(* initialisation and in an iteration that logs a block, which leaves      *)
(* last_block at the number of the last block logged and last_block_time   *)
(* at the time it was logged; switching the provider, a failed latest      *)
(* read, a failed or missing fetch of the first block requested, an        *)
(* iteration without new blocks and the sleep leave both as they were.     *)
C17_CursorChangesOnlyOnInitAndEmit ==
    [][/\ <<last_block, last_block_time>>' # <<last_block, last_block_time>> =>
            \/ /\ pc = "constructed"
               /\ RunStart \/ RunStartFailover
               /\ last_block_time' = now'
            \/ /\ pc = "running"
               /\ EmitStep
               /\ last_block' = emitted'[Len(emitted')].block_number
               /\ last_block_time' = now
       /\ (pc = "running" /\ EmitStep) =>
            /\ last_block' = emitted'[Len(emitted')].block_number
            /\ last_block_time' = now
       /\ (PollLatestError \/ PollStalled \/ PollIdle \/ NewBlock
             \/ (PollBlockFault /\ ~EmitStep)) =>
            UNCHANGED <<last_block, last_block_time>>]_vars

\* A provider was switched after blocks had been logged, and the cursor and
\* its timestamp are still those of the last block logged.
C17_Witness ==
    /\ event \in {"stall", "latest_error", "block_error", "block_missing"}
    /\ emitted # <<>>
    /\ last_block = emitted[Len(emitted)].block_number
    /\ last_block_time < now
    /\ \E i \in DOMAIN rotations : rotations[i] >= 2

(* C18: every block that get_block returns in an iteration, a block with   *)
(* an empty transaction list included, is logged and moves the cursor to   *)
(* its number, and logging a block neither raises nor ends the loop.       *)
C18_EveryReturnedBlockEmitted ==
    [][(pc = "running" /\ ~NewBlock) =>
            /\ pc' = "running"
            /\ \A k \in 1..Len(requested') :
                    GetBlock(current_provider_index, requested'[k]) \notin {"error", "missing"} =>
                        /\ \E j \in (Len(emitted) + 1)..Len(emitted') :
                                emitted'[j] = BlockRecord(requested'[k], current_provider_index)
                        /\ last_block' >= requested'[k]]_vars

\* No provider reports a block above the cursor.
NoProviderAhead ==
    \A i \in 0..(Len(providers) - 1) : LatestFails(i) \/ Latest(i) <= last_block

(* C19: a stall switch leaves the stall clock where it was, so the stall   *)
(* test still holds after it; and while it holds and no provider reports a *)
(* block above the cursor, every iteration switches the provider at once,  *)
(* with no sleep and no other delay between the switches.                  *)
C19_StallRotationKeepsClock ==
    [][/\ PollStalled =>
            /\ last_block_time' = last_block_time
            /\ now' = now
            /\ Stalled(now', last_block_time')
       /\ (pc = "running" /\ ~NewBlock /\ NoProviderAhead
             /\ Stalled(now, last_block_time)) =>
            /\ PollStalled \/ PollLatestError
            /\ current_provider_index' = (current_provider_index + 1) % Len(providers)
            /\ now' = now
            /\ Stalled(now', last_block_time')]_vars

\* Two providers that answer, neither ahead of the cursor: each has been
\* switched away from on a stall, and no time has passed since the first
\* switch.
C19_Witness ==
    /\ event = "stall"
    /\ Len(providers) = 2
    /\ \A k \in 1..2 : Healthy(providers[k])
    /\ NoProviderAhead
    /\ rotations[0] >= 1 /\ rotations[1] >= 1
    /\ now = last_block_time + BlockDelayThreshold

====
